---- MODULE Spec2Model ----
(***************************************************************************)
(* Request lifecycle of packages/fetch/src/index.ts (class HttpRequest and *)
(* createHttpRequest): the pendingRequests registry, duplicate             *)
(* cancellation, the retry logic of the response error interceptor and     *)
(* cancelRequest.                                                          *)
(*                                                                         *)
(* One step of the model is one callback of the single-threaded event      *)
(* loop: a request interceptor run, the dispatch to the transport, a       *)
(* response interceptor run, a retry timer firing, a cancelRequest call.   *)
(* Time is counted in units of 200 ms.                                     *)
(*                                                                         *)
(* Further specifications cover the default stages of createHttpRequest,   *)
(* the request key, one call through the merged stages with download, and  *)
(* the event bus of packages/event-bus/src/index.ts.                       *)
(***************************************************************************)
EXTENDS Integers, Sequences, FiniteSets, TLC

\* ------------------------------------------------------------------------
\* Bounds of the model
\* ------------------------------------------------------------------------
NCalls == 2
MaxTime == 2
MaxRetryTimes == 2

\* ------------------------------------------------------------------------
\* Options of the instance (constructor, lines 151-172)
\* ------------------------------------------------------------------------
\* debounceTime: options.debounceTime ?? 200 (ms), one time unit
debounceTime == 1
\* retryDelay: an instance created with retryDelay: 200 (ms), one time unit
retryDelay == 1

Calls == 1..NCalls
Urls == {"/a", "/b"}
\* the requests a caller issues: url and params
Configs == {[url |-> "/a", params |-> ""],
            [url |-> "/a", params |-> "{\"id\":1}"],
            [url |-> "/b", params |-> ""]}
RetryConditions == {"default", "always"}

VARIABLES
  retryTimes,       \* this.retryTimes
  retryCondition,   \* this.retryCondition: "default" is defaultRetryCondition
  now,              \* Date.now()
  pendingRequests,  \* this.pendingRequests: requestKey -> IPendingRequest
  pc,               \* position of each logical call in the pipeline
  config,           \* the request config of each call: url, params
  signal,           \* state of the AbortSignal of the call's controller
  retryCount,       \* config._retryCount
  due,              \* time at which the retry timer of the call may fire
  outcome,          \* what the caller's promise settled with
  calls,            \* history: number of transport invocations of the call
  late,             \* history: pairs <<A, B>>, B registered over A's entry outside the window
  stageRuns,        \* history: runs of the response-failure stage for the call
  locale,           \* options.locale of createHttpRequest
  input,            \* the error or response handed to a default stage
  result,           \* what the stage returned or rejected with
  all,              \* event bus: the listener map, event type -> listener list
  stack,            \* event bus: the emit calls in progress, innermost last
  thrown,           \* event bus: what the last call of the bus API threw to its caller
  fired             \* history: the one-shot wrappers that have run their handler

vars == <<retryTimes, retryCondition, now, pendingRequests, pc, config, signal,
          retryCount, due, outcome, calls, late, stageRuns, locale, input, result,
          all, stack, thrown, fired>>
\* the variables of the request lifecycle
lifecycleVars == <<retryTimes, retryCondition, now, pendingRequests, pc, config, signal,
                   retryCount, due, outcome, calls, late, stageRuns>>
\* the variables of the default stages of createHttpRequest
stageVars == <<locale, input, result>>
\* the variables of the event bus
busVars == <<all, stack, thrown, fired>>
\* a bus fresh from mitt(): an empty map, no call in progress
IdleBus ==
  /\ all = <<>>
  /\ stack = <<>>
  /\ thrown = "none"
  /\ fired = {}

\* ------------------------------------------------------------------------
\* Values
\* ------------------------------------------------------------------------
\* no entry under a key; owner is the call whose controller the entry holds
NoEntry == [timestamp |-> 0, owner |-> 0, url |-> ""]
NoConfig == [url |-> "", params |-> ""]
Pending == [kind |-> "pending", code |-> "", status |-> 0]

\* errors the transport (axios adapter) rejects with
NetworkError == [isCancel |-> FALSE, hasConfig |-> TRUE, code |-> "ERR_NETWORK", status |-> 0]
TransportErrors ==
  {NetworkError,
   [isCancel |-> FALSE, hasConfig |-> TRUE, code |-> "ERR_BAD_REQUEST", status |-> 404],
   [isCancel |-> FALSE, hasConfig |-> TRUE, code |-> "ERR_BAD_RESPONSE", status |-> 500]}
\* CanceledError(null, config) raised for an aborted signal
CanceledError == [isCancel |-> TRUE, hasConfig |-> TRUE, code |-> "ERR_CANCELED", status |-> 0]
\* an error thrown by a requestSuccess stage: a plain Error, no config
StageError == [isCancel |-> FALSE, hasConfig |-> FALSE, code |-> "STAGE", status |-> 0]

\* ------------------------------------------------------------------------
\* Values of the default stages of createHttpRequest (lines 508-626)
\* ------------------------------------------------------------------------
\* options.locale
Locales == {"zh", "en"}

\* JavaScript values of the code field of a response body; the text of a
\* string is the sequence of its characters
Undefined == [type |-> "undefined", n |-> 0, chars |-> <<>>]
Null == [type |-> "null", n |-> 0, chars |-> <<>>]
NaN == [type |-> "NaN", n |-> 0, chars |-> <<>>]
Num(n) == [type |-> "number", n |-> n, chars |-> <<>>]
Str(chars) == [type |-> "string", n |-> 0, chars |-> chars]

CodeValues ==
  {Undefined, Null, Num(0), Num(200), Num(403),
   Str(<<"2", "0", "0">>), Str(<<"4", "0", "3">>), Str(<<>>), Str(<<"o", "k">>)}

\* response.data: a primitive (type, n, text) or an object with the fields
\* code, msg, message and data of IBusinessResponse; a field that is not
\* there is Undefined, or "" for msg, message and data
Primitive(type, n, text) ==
  [type |-> type, n |-> n, text |-> text,
   code |-> Undefined, msg |-> "", message |-> "", data |-> ""]
ObjectBody(code, msg, message, data) ==
  [type |-> "object", n |-> 0, text |-> "",
   code |-> code, msg |-> msg, message |-> message, data |-> data]

Bodies ==
  {Primitive("undefined", 0, ""), Primitive("null", 0, ""),
   Primitive("string", 0, ""), Primitive("string", 0, "ok"),
   Primitive("number", 0, ""), Primitive("number", 7, ""),
   Primitive("boolean", 0, ""), Primitive("boolean", 1, "")}
  \cup {ObjectBody(code, msg, message, data) :
          code \in CodeValues, msg \in {"", "nope"}, message \in {"", "denied"},
          data \in {"", "{id:1}"}}

\* error.message values that contain "timeout"
TimeoutMessages == {"timeout of 1000ms exceeded"}

\* the AxiosError values handed to the default stages: status 0 and no body
\* message stand for no response
StageErrors ==
  {e \in [isCancel : {FALSE}, hasConfig : {TRUE},
          code : {"ECONNABORTED", "ERR_NETWORK", "ERR_BAD_REQUEST", "ERR_BAD_RESPONSE"},
          status : {0, 400, 401, 403, 404, 500, 502},
          message : {"", "Network Error", "Unsupported protocol ftp:"} \cup TimeoutMessages,
          bodyMessage : {"", "denied"},
          bodyMsg : {"", "nope"},
          hasRequest : BOOLEAN] :
     /\ e.status = 0 => e.bodyMessage = "" /\ e.bodyMsg = ""
     /\ e.status # 0 => e.hasRequest}

NoStageError ==
  [isCancel |-> FALSE, hasConfig |-> FALSE, code |-> "", status |-> 0, message |-> "",
   bodyMessage |-> "", bodyMsg |-> "", hasRequest |-> FALSE]
NoInput == [stage |-> "none", error |-> NoStageError, data |-> Primitive("undefined", 0, "")]
NoValue == [from |-> "none", data |-> "", body |-> Primitive("undefined", 0, "")]
NoResult == [kind |-> "none", value |-> NoValue, code |-> Undefined, message |-> "", retry |-> FALSE]

\* ------------------------------------------------------------------------
\* Pure functions of the class
\* ------------------------------------------------------------------------
\* defaultGenerateRequestKey: [url, METHOD, serialized params, serialized data]
\* joined; the calls of the model are GET requests without a body.
defaultGenerateRequestKey(cfg) == <<cfg.url, "GET", cfg.params, "">>

Keys == {defaultGenerateRequestKey(cfg) : cfg \in Configs}

\* the retry condition that accepts every failure that carries a response
defaultRetryConditionAnyResponse(error) == error.status # 0

\* !!error.response && 500 <= error.response.status < 600; status 0
\* stands for an error without a response
defaultRetryCondition(error) ==
  error.status # 0 /\ error.status >= 500 /\ error.status < 600

RetryConditionHolds(error) ==
  IF retryCondition = "default" THEN defaultRetryCondition(error) ELSE TRUE

\* the retry decision with the attempt limit off by one
ShouldRetryOffByOne(error, count) ==
  /\ ~error.isCancel
  /\ error.hasConfig
  /\ count <= retryTimes + 1
  /\ RetryConditionHolds(error)

\* the retry decision taken before the cancellation check
ShouldRetryCancelled(error, count) ==
  /\ error.hasConfig
  /\ retryTimes > 0
  /\ count <= retryTimes
  /\ RetryConditionHolds(error)

\* the retry decision without the test that the error carries a config
ShouldRetryWithoutConfig(error, count) ==
  /\ ~error.isCancel
  /\ retryTimes > 0
  /\ count <= retryTimes
  /\ RetryConditionHolds(error)

\* The decision of the response error interceptor to retry (lines 285-304):
\* never for a cancellation, else by retryTimes, the incremented
\* config._retryCount (count) and retryCondition.
ShouldRetry(error, count) ==
  /\ ~error.isCancel
  /\ error.hasConfig
  /\ retryTimes > 0
  /\ count <= retryTimes
  /\ RetryConditionHolds(error)

\* entry.controller.abort(message): a signal is aborted once, later aborts
\* leave its reason as it is
Abort(sig, entry, reason) ==
  [c \in DOMAIN sig |-> IF c = entry.owner /\ sig[c] = "active" THEN reason ELSE sig[c]]

\* removeRequest(config): pendingRequests.delete(generateRequestKey(config))
removeRequest(reg, cfg) ==
  [reg EXCEPT ![defaultGenerateRequestKey(cfg)] = NoEntry]

\* ------------------------------------------------------------------------
\* The default stages of createHttpRequest
\* ------------------------------------------------------------------------
\* successCodes: options.successCodes ?? [200]
successCodes == {200}

\* the messages table of defaultResponseError (lines 529-552); the Chinese
\* texts of the zh table and the Chinese texts written in the code are
\* given as English glosses that start with "zh:"
messages ==
  [zh |-> [requestFailed |-> "zh:request failed",
           unauthorized |-> "zh:unauthorized, please log in again",
           forbidden |-> "zh:no permission to access the resource",
           notFound |-> "zh:the requested resource does not exist",
           internalServerError |-> "zh:internal server error",
           networkError |-> "zh:network error, please check the connection",
           timeout |-> "zh:request timed out, please retry later",
           configError |-> "zh:request configuration error"],
   en |-> [requestFailed |-> "Request failed",
           unauthorized |-> "Unauthorized, please log in again",
           forbidden |-> "Forbidden, no access to this resource",
           notFound |-> "Resource not found",
           internalServerError |-> "Internal server error",
           networkError |-> "Network error, please check your connection",
           timeout |-> "Request timed out, please try again later",
           configError |-> "Request configuration error"]]

\* messages[locale].serverError(status)
serverError(loc, status) ==
  IF loc = "zh"
  THEN "zh:server exception(" \o ToString(status) \o ")"
  ELSE "Server error (" \o ToString(status) \o ")"

\* the texts written in the code outside the table: the fallback message of
\* BusinessError and the message of the empty response error (lines 593, 609)
BusinessFallback == "zh:business processing failed"
EmptyResponse == "zh:response data is empty"
\* the message of the CanceledError(null, config) that axios rejects with
CanceledMessage == "canceled"

\* JavaScript truthiness of response.data: if (data)
Truthy(data) ==
  CASE data.type \in {"undefined", "null"} -> FALSE
    [] data.type = "string" -> data.text # ""
    [] data.type = "number" -> data.n # 0
    [] data.type = "boolean" -> data.n = 1
    [] OTHER -> TRUE

DigitValue ==
  [c \in {"0", "1", "2", "3", "4", "5", "6", "7", "8", "9"} |->
     CASE c = "0" -> 0 [] c = "1" -> 1 [] c = "2" -> 2 [] c = "3" -> 3 [] c = "4" -> 4
       [] c = "5" -> 5 [] c = "6" -> 6 [] c = "7" -> 7 [] c = "8" -> 8 [] OTHER -> 9]

RECURSIVE ParseDigits(_)
ParseDigits(chars) ==
  IF chars = <<>> THEN 0
  ELSE 10 * ParseDigits(SubSeq(chars, 1, Len(chars) - 1)) + DigitValue[chars[Len(chars)]]

\* Number(text): the number a decimal numeral stands for, 0 for the empty
\* text, NaN for a text that is not a numeral
Number(chars) ==
  IF \A i \in 1..Len(chars) : chars[i] \in DOMAIN DigitValue
  THEN Num(ParseDigits(chars)) ELSE NaN

Returned(from, data, body) ==
  [kind |-> "returned", value |-> [from |-> from, data |-> data, body |-> body],
   code |-> Undefined, message |-> "", retry |-> FALSE]
Rejected(kind, message, code) ==
  [kind |-> kind, value |-> NoValue, code |-> code, message |-> message, retry |-> FALSE]

\* the parser with the test of the application code left out
responseParserNoCodeCheck(data) ==
  IF Truthy(data) THEN Returned("data.data", data.data, NoValue.body)
  ELSE Rejected("Error", EmptyResponse, Undefined)

\* defaultResponseParser (lines 587-610) on response.data
responseParser(data) ==
  LET code == IF data.code.type = "string" THEN Number(data.code.chars) ELSE data.code
      msg == IF data.msg # "" THEN data.msg
             ELSE IF data.message # "" THEN data.message ELSE BusinessFallback
  IN IF Truthy(data)
     THEN IF code.type \notin {"undefined", "null"}
          THEN IF code.type = "number" /\ code.n \in successCodes
               THEN Returned("data.data", data.data, NoValue.body)
               ELSE Rejected("BusinessError", msg, code)
          ELSE Returned("response.data", "", data)
     ELSE Rejected("Error", EmptyResponse, Undefined)

\* the status switch left out: the body message or the template for every status
defaultResponseErrorNoSwitch(error) ==
  Rejected("AxiosError",
           IF error.bodyMessage # "" THEN error.bodyMessage
           ELSE IF error.bodyMsg # "" THEN error.bodyMsg
           ELSE serverError(locale, error.status), Undefined)

\* defaultResponseError (lines 527-583): the message the error is rejected with
defaultResponseError(error) ==
  LET msg == messages[locale]
      emsg ==
        IF error.code = "ECONNABORTED" \/ error.message \in TimeoutMessages
        THEN msg.timeout
        ELSE IF error.status # 0
        THEN CASE error.status = 401 -> msg.unauthorized
               [] error.status = 403 -> msg.forbidden
               [] error.status = 404 -> msg.notFound
               [] error.status = 500 -> msg.internalServerError
               [] OTHER -> IF error.bodyMessage # "" THEN error.bodyMessage
                           ELSE IF error.bodyMsg # "" THEN error.bodyMsg
                           ELSE serverError(locale, error.status)
        ELSE IF error.hasRequest THEN msg.networkError
        ELSE IF error.message # "" THEN error.message ELSE msg.configError
  IN Rejected("AxiosError", emsg, Undefined)

\* ------------------------------------------------------------------------
\* Initial state: a fresh instance, no call issued
\* ------------------------------------------------------------------------
Init ==
  /\ retryTimes \in 0..MaxRetryTimes
  /\ retryCondition \in RetryConditions
  /\ now = 0
  /\ pendingRequests = [k \in Keys |-> NoEntry]
  /\ pc = [c \in Calls |-> "idle"]
  /\ config = [c \in Calls |-> NoConfig]
  /\ signal = [c \in Calls |-> "active"]
  /\ retryCount = [c \in Calls |-> 0]
  /\ due = [c \in Calls |-> 0]
  /\ outcome = [c \in Calls |-> Pending]
  /\ calls = [c \in Calls |-> 0]
  /\ late = {}
  /\ stageRuns = [c \in Calls |-> 0]
  /\ locale = "zh"
  /\ input = NoInput
  /\ result = NoResult
  /\ IdleBus

\* ------------------------------------------------------------------------
\* Operations
\* ------------------------------------------------------------------------
\* http.get(url, params): instance.get queues the interceptor chain
Request(c, cfg) ==
  /\ pc[c] = "idle"
  /\ \A d \in Calls : d < c => pc[d] # "idle"
  /\ pc' = [pc EXCEPT ![c] = "queued"]
  /\ config' = [config EXCEPT ![c] = cfg]
  /\ UNCHANGED <<stageVars, busVars, stageRuns, retryTimes, retryCondition, now, pendingRequests, signal,
                 retryCount, due, outcome, calls, late>>

\* the comparison of the debounce window turned around
WithinDebounceReversed(existingRequest) == now - existingRequest.timestamp >= debounceTime

\* currentTime - existingRequest.timestamp < this.debounceTime
WithinDebounce(existingRequest) == now - existingRequest.timestamp < debounceTime

\* The request interceptor (lines 243-251): checkDuplicateRequest (204-228),
\* then the requestSuccess stage, which returns the config or throws.
RequestInterceptor(c, stageOk) ==
  LET requestKey == defaultGenerateRequestKey(config[c])
      existingRequest == pendingRequests[requestKey]
      found == existingRequest.owner # 0
      young == found /\ WithinDebounce(existingRequest)
      aborted == IF young THEN Abort(signal, existingRequest, "duplicate") ELSE signal
      victim == existingRequest.owner
  IN
  /\ pc[c] = "queued"
  /\ signal' = [aborted EXCEPT ![c] = "active"]
  /\ pendingRequests' = [pendingRequests EXCEPT ![requestKey] =
        [timestamp |-> now, owner |-> c, url |-> config[c].url]]
  /\ late' = IF found /\ ~young /\ victim # c /\ retryCount[c] = 0
                /\ pc[victim] \in {"registered", "inflight"}
             THEN late \cup {<<victim, c>>} ELSE late
  /\ pc' = [pc EXCEPT ![c] = IF stageOk THEN "registered" ELSE "reqFailed"]
  /\ UNCHANGED <<stageVars, busVars, stageRuns, retryTimes, retryCondition, now, config, retryCount, due, outcome,
                 calls>>

\* dispatchRequest: the config reaches the transport unless its signal is
\* already aborted (then CanceledError is raised, see ResponseCancelled)
Dispatch(c) ==
  /\ pc[c] = "registered"
  /\ signal[c] = "active"
  /\ pc' = [pc EXCEPT ![c] = "inflight"]
  /\ calls' = [calls EXCEPT ![c] = @ + 1]
  /\ UNCHANGED <<stageVars, busVars, stageRuns, retryTimes, retryCondition, now, pendingRequests, config, signal,
                 retryCount, due, outcome, late>>

\* every body classified as a business failure
defaultResponseParserAllBusiness(code) ==
  [kind |-> "business", code |-> "BusinessError", status |-> code]

\* defaultResponseParser on a body that carries the application code code
defaultResponseParser(code) ==
  IF responseParser(ObjectBody(Num(code), "", "", "")).kind = "returned"
  THEN [kind |-> "success", code |-> "", status |-> code]
  ELSE [kind |-> "business", code |-> "BusinessError", status |-> code]

\* the application codes of the bodies the transport answers with
AppCodes == {200, 403}

\* The response success interceptor (lines 263-278) on a 2xx response:
\* removeRequest, then the parser.
ResponseSuccess(c, code) ==
  /\ pc[c] = "inflight"
  /\ signal[c] = "active"
  /\ pendingRequests' = removeRequest(pendingRequests, config[c])
  /\ outcome' = [outcome EXCEPT ![c] = defaultResponseParser(code)]
  /\ pc' = [pc EXCEPT ![c] = "done"]
  /\ UNCHANGED <<stageVars, busVars, stageRuns, retryTimes, retryCondition, now, config, signal, retryCount, due,
                 calls, late>>

\* the response-failure stage run for every failure that is not a cancellation
RunsFailureStageBeforeRetry(error, count) == ~error.isCancel
\* interceptors.responseError (lines 306-309) is reached when the interceptor
\* has returned neither for a cancellation (285-288) nor for a retry (292-304)
RunsFailureStage(error, count) == ~error.isCancel /\ ~ShouldRetry(error, count)

\* The response error interceptor (lines 279-312) for call c and error.
responseError(c, error) ==
  LET count == retryCount[c] + 1 IN
  /\ stageRuns' = IF RunsFailureStage(error, count)
                  THEN [stageRuns EXCEPT ![c] = @ + 1] ELSE stageRuns
  /\ pendingRequests' = IF error.hasConfig
                        THEN removeRequest(pendingRequests, config[c])
                        ELSE pendingRequests
  /\ retryCount' = IF ~error.isCancel /\ error.hasConfig /\ retryTimes > 0
                   THEN [retryCount EXCEPT ![c] = count] ELSE retryCount
  /\ IF ShouldRetry(error, count)
     THEN /\ pc' = [pc EXCEPT ![c] = "delay"]
          /\ due' = [due EXCEPT ![c] = now + retryDelay]
          /\ outcome' = outcome
     ELSE /\ pc' = [pc EXCEPT ![c] = "done"]
          /\ due' = due
          /\ outcome' = [outcome EXCEPT ![c] =
               [kind |-> IF error.isCancel THEN "cancelled"
                         ELSE IF error.hasConfig THEN "error" ELSE "stage",
                code |-> error.code, status |-> error.status]]

\* the transport rejects with error; the response error interceptor runs
TransportFail(c, error) ==
  /\ pc[c] = "inflight"
  /\ signal[c] = "active"
  /\ responseError(c, error)
  /\ UNCHANGED <<stageVars, busVars, retryTimes, retryCondition, now, config, signal, calls, late>>

\* the signal of the call was aborted, before dispatch or in flight: the
\* chain rejects with CanceledError and the response error interceptor runs
ResponseCancelled(c) ==
  /\ pc[c] \in {"registered", "inflight"}
  /\ signal[c] # "active"
  /\ responseError(c, CanceledError)
  /\ UNCHANGED <<stageVars, busVars, retryTimes, retryCondition, now, config, signal, calls, late>>

\* the error thrown by the requestSuccess stage skips the transport and
\* reaches the response error interceptor
StageErrorDelivered(c) ==
  /\ pc[c] = "reqFailed"
  /\ responseError(c, StageError)
  /\ UNCHANGED <<stageVars, busVars, retryTimes, retryCondition, now, config, signal, calls, late>>

\* the retry timer fires: this.instance.request(config) (lines 298-302)
RetryFire(c) ==
  /\ pc[c] = "delay"
  /\ now >= due[c]
  /\ pc' = [pc EXCEPT ![c] = "queued"]
  /\ UNCHANGED <<stageVars, busVars, stageRuns, retryTimes, retryCondition, now, pendingRequests, config, signal,
                 retryCount, due, outcome, calls, late>>

\* the url filter ignored: every entry matches
CancelMatchesAny(entry, url) == TRUE

\* req.url === url, or every entry when no url is given (if (url) ... else ...)
CancelMatches(entry, url) == url = "" \/ entry.url = url

\* cancelRequest(url) (lines 449-463); url = "" stands for no url given
CancelRequest(url) ==
  LET hit(k) == pendingRequests[k].owner # 0 /\ CancelMatches(pendingRequests[k], url)
      hits(c) == \E k \in Keys : hit(k) /\ Abort(signal, pendingRequests[k], "manual")[c] # signal[c]
  IN
  /\ signal' = [c \in Calls |-> IF hits(c) THEN "manual" ELSE signal[c]]
  /\ pendingRequests' = [k \in Keys |-> IF hit(k) THEN NoEntry ELSE pendingRequests[k]]
  /\ UNCHANGED <<stageVars, busVars, stageRuns, retryTimes, retryCondition, now, pc, config, retryCount,
                 due, outcome, calls, late>>

\* time passes
Tick ==
  /\ now < MaxTime
  /\ now' = now + 1
  /\ UNCHANGED <<stageVars, busVars, stageRuns, retryTimes, retryCondition, pendingRequests, pc, config, signal,
                 retryCount, due, outcome, calls, late>>

Next ==
  \/ \E c \in Calls, cfg \in Configs : Request(c, cfg)
  \/ \E c \in Calls : RequestInterceptor(c, TRUE)
  \/ \E c \in Calls : RequestInterceptor(c, FALSE)
  \/ \E c \in Calls : Dispatch(c)
  \/ \E c \in Calls, code \in AppCodes : ResponseSuccess(c, code)
  \/ \E c \in Calls, e \in TransportErrors : TransportFail(c, e)
  \/ \E c \in Calls : ResponseCancelled(c)
  \/ \E c \in Calls : StageErrorDelivered(c)
  \/ \E c \in Calls : RetryFire(c)
  \/ \E u \in Urls \cup {""} : CancelRequest(u)
  \/ Tick

Spec == Init /\ [][Next]_vars

\* ------------------------------------------------------------------------
\* The default stages on their own: one error or response is handed to a
\* stage of an instance created with the default interceptors
\* ------------------------------------------------------------------------
\* the CanceledError values the response error interceptor receives
StageCancellations ==
  {[NoStageError EXCEPT !.isCancel = TRUE, !.hasConfig = TRUE, !.code = "ERR_CANCELED",
                        !.message = CanceledMessage, !.hasRequest = r] : r \in BOOLEAN}

StageInputs ==
  [stage : {"retryCondition", "responseError"}, error : StageErrors, data : {NoInput.data}]
  \cup [stage : {"responseError"}, error : StageCancellations, data : {NoInput.data}]
  \cup [stage : {"responseParser"}, error : {NoStageError}, data : Bodies]

InitStages ==
  /\ retryTimes = 0
  /\ retryCondition = "default"
  /\ now = 0
  /\ pendingRequests = [k \in Keys |-> NoEntry]
  /\ pc = [c \in Calls |-> "idle"]
  /\ config = [c \in Calls |-> NoConfig]
  /\ signal = [c \in Calls |-> "active"]
  /\ retryCount = [c \in Calls |-> 0]
  /\ due = [c \in Calls |-> 0]
  /\ outcome = [c \in Calls |-> Pending]
  /\ calls = [c \in Calls |-> 0]
  /\ late = {}
  /\ stageRuns = [c \in Calls |-> 0]
  /\ IdleBus
  /\ locale \in Locales
  /\ input \in StageInputs
  /\ result = NoResult

\* this.retryCondition(error) with the default condition (line 294)
RetryConditionStage ==
  /\ input.stage = "retryCondition"
  /\ result = NoResult
  /\ result' = [NoResult EXCEPT !.kind = "decided",
                                !.retry = defaultRetryCondition(input.error)]
  /\ UNCHANGED <<locale, input, lifecycleVars, busVars>>

\* the end of the response error interceptor (lines 285-311) when nothing
\* is retried: a cancellation is rejected as it came, every other error
\* goes through defaultResponseError
ResponseErrorStage ==
  /\ input.stage = "responseError"
  /\ result = NoResult
  /\ result' = IF input.error.isCancel
               THEN Rejected("CanceledError", input.error.message, Undefined)
               ELSE defaultResponseError(input.error)
  /\ UNCHANGED <<locale, input, lifecycleVars, busVars>>

\* the response success interceptor (lines 263-270) hands the response to
\* the default parser
ResponseParserStage ==
  /\ input.stage = "responseParser"
  /\ result = NoResult
  /\ result' = responseParser(input.data)
  /\ UNCHANGED <<locale, input, lifecycleVars, busVars>>

NextStages ==
  \/ RetryConditionStage
  \/ ResponseErrorStage
  \/ ResponseParserStage

SpecStages == InitStages /\ [][NextStages]_vars

\* ------------------------------------------------------------------------
\* The default request key on its own (lines 177-199)
\* ------------------------------------------------------------------------
\* the values of config.params and config.data: undefined, a string, a plain
\* object or a FormData; entries are <<name, value>> pairs in insertion order
JsUndefined == [type |-> "undefined", text |-> "", entries |-> <<>>]
JsString(text) == [type |-> "string", text |-> text, entries |-> <<>>]
JsObject(entries) == [type |-> "object", text |-> "", entries |-> entries]
JsFormData(entries) == [type |-> "FormData", text |-> "", entries |-> entries]

EntryLists ==
  {<<>>, <<<<"a", "1">>>>, <<<<"a", "1">>, <<"b", "2">>>>, <<<<"b", "2">>, <<"a", "1">>>>}

KeyValues ==
  {JsUndefined, JsString(""), JsString("x")}
  \cup {JsObject(es) : es \in EntryLists}
  \cup {JsFormData(es) : es \in EntryLists}

\* the order of the characters used in entries
CharRank == [c \in {"1", "2", "a", "b"} |->
               CASE c = "1" -> 1 [] c = "2" -> 2 [] c = "a" -> 3 [] OTHER -> 4]

\* `${key}=${String(val)}` of one entry sorts before that of another
EntryBefore(x, y) ==
  \/ CharRank[x[1]] < CharRank[y[1]]
  \/ x[1] = y[1] /\ CharRank[x[2]] < CharRank[y[2]]

RECURSIVE SortEntries(_)
\* entries.sort(): insertion of the last entry into the sorted rest
SortEntries(es) ==
  IF Len(es) <= 1 THEN es
  ELSE LET rest == SortEntries(SubSeq(es, 1, Len(es) - 1))
           x == es[Len(es)]
           k == Cardinality({i \in 1..Len(rest) : EntryBefore(rest[i], x)})
       IN SubSeq(rest, 1, k) \o <<x>> \o SubSeq(rest, k + 1, Len(rest))

\* safeSerializer (lines 180-197): a string as it is, "" for undefined, the
\* sorted entries of a FormData joined by "&", JSON.stringify (the fields
\* in insertion order) for any other value
safeSerializer(v) ==
  CASE v.type = "string" -> [fmt |-> "text", text |-> v.text, items |-> <<>>]
    [] v.type = "undefined" -> [fmt |-> "text", text |-> "", items |-> <<>>]
    [] v.type = "FormData" -> [fmt |-> "form", text |-> "", items |-> SortEntries(v.entries)]
    [] OTHER -> [fmt |-> "json", text |-> "", items |-> v.entries]

\* method.toUpperCase()
toUpperCase(method) ==
  CASE method = "get" -> "GET" [] method = "post" -> "POST" [] OTHER -> method

\* defaultGenerateRequestKey on a config with structured params and data:
\* the four parts joined by "||"
generateRequestKey(cfg) ==
  <<cfg.url, toUpperCase(cfg.method), safeSerializer(cfg.params), safeSerializer(cfg.data)>>

Descriptors ==
  [url : {"/a"}, method : {"get", "GET", "post"}, params : KeyValues,
   data : {JsUndefined, JsObject(<<<<"a", "1">>, <<"b", "2">>>>),
           JsFormData(<<<<"a", "1">>, <<"b", "2">>>>), JsFormData(<<<<"b", "2">>, <<"a", "1">>>>)}]

\* the lifecycle at rest, with the default options
IdleLifecycle ==
  /\ retryTimes = 0
  /\ retryCondition = "default"
  /\ now = 0
  /\ pendingRequests = [k \in Keys |-> NoEntry]
  /\ pc = [c \in Calls |-> "idle"]
  /\ config = [c \in Calls |-> NoConfig]
  /\ signal = [c \in Calls |-> "active"]
  /\ retryCount = [c \in Calls |-> 0]
  /\ due = [c \in Calls |-> 0]
  /\ outcome = [c \in Calls |-> Pending]
  /\ calls = [c \in Calls |-> 0]
  /\ late = {}
  /\ stageRuns = [c \in Calls |-> 0]

InitKeys ==
  /\ IdleLifecycle
  /\ IdleBus
  /\ locale = "zh"
  /\ input \in [first : Descriptors, second : Descriptors]
  /\ result = <<>>

\* the keys of the two configs are generated, as checkDuplicateRequest does
\* for each request (line 205)
GenerateKeys ==
  /\ result = <<>>
  /\ result' = <<generateRequestKey(input.first), generateRequestKey(input.second)>>
  /\ UNCHANGED <<locale, input, lifecycleVars, busVars>>

NextKeys == GenerateKeys

SpecKeys == InitKeys /\ [][NextKeys]_vars

\* ------------------------------------------------------------------------
\* One call through the stages that createHttpRequest merges (lines
\* 613-623) and setupInterceptors installs (lines 241-314), and download
\* (lines 419-442)
\* ------------------------------------------------------------------------
\* the stages a caller can supply in the options
CallerStages == {"requestSuccess", "responseSuccess", "responseParser"}

\* the messages of the errors a caller-supplied stage throws
ThrownMessages == {"boom", ""} \cup TimeoutMessages

\* an Error thrown by a stage: no config, no response, no request
ThrownError(message) == [NoStageError EXCEPT !.message = message]

\* the bytes of the response body of a download
FileBytes == "PDF"
\* a Blob seen as response.data: an object without code, msg, message, data
BlobBody == ObjectBody(Undefined, "", "", "")

\* content-disposition header values, cut into tokens; <<>> is no header
Headers ==
  {<<>>,
   <<"attachment; ", "filename=", "\"", "r%20x.pdf", "\"">>,
   <<"attachment; ", "filename=", "r.pdf">>}

\* decodeURIComponent on a token
decodeURIComponent(token) == IF token = "r%20x.pdf" THEN "r x.pdf" ELSE token

\* contentDisposition.match(/filename="?(.+)"?/)[1]: what follows
\* filename= and an optional quote, up to the end of the value (.+ is
\* greedy, the closing quote is optional); <<>> when nothing matches
filenameMatch(header) ==
  LET at == {i \in 1..Len(header) : header[i] = "filename="}
      i == CHOOSE k \in at : \A l \in at : k <= l
      j == IF i < Len(header) /\ header[i + 1] = "\"" THEN i + 2 ELSE i + 1
  IN IF at = {} \/ j > Len(header) THEN <<>> ELSE SubSeq(header, j, Len(header))

PipelineInputs ==
  {i \in [op : {"get", "download"}, supplied : SUBSET CallerStages,
          thrower : CallerStages \cup {"none"}, message : ThrownMessages,
          data : {ObjectBody(Num(200), "", "", "{id:1}"), ObjectBody(Num(403), "nope", "", ""),
                  BlobBody},
          header : Headers, fileName : {"download", "x.bin"}] :
     /\ i.thrower # "none" => i.thrower \in i.supplied
     /\ i.thrower = "none" => i.message = "boom"
     /\ i.op = "get" => i.header = <<>> /\ i.fileName = "download"
     /\ i.op = "download" => i.data = BlobBody}

NoSaved == [bytes |-> "", name |-> <<>>]
PipelineStart ==
  [at |-> "start", ran |-> <<>>, kind |-> "none", by |-> "", value |-> "",
   message |-> "", saved |-> NoSaved]

InitPipeline ==
  /\ IdleLifecycle
  /\ IdleBus
  /\ locale \in Locales
  /\ input \in PipelineInputs
  /\ result = PipelineStart

\* the parser that takes a supplied responseSuccess before responseParser
mergedParserSuccessFirst(supplied) ==
  IF "responseSuccess" \in supplied THEN "none"
  ELSE IF "responseParser" \in supplied THEN "responseParser"
  ELSE "defaultResponseParser"

\* mergedOptions.responseParser (line 622): the caller's parser, else none
\* when the caller supplied responseSuccess, else the default parser
mergedParser(supplied) ==
  IF "responseParser" \in supplied THEN "responseParser"
  ELSE IF "responseSuccess" \in supplied THEN "none"
  ELSE "defaultResponseParser"

\* the stage the response success interceptor hands the response to
\* (lines 267-277)
responseHandler(supplied) ==
  IF mergedParser(supplied) # "none" THEN mergedParser(supplied)
  ELSE IF "responseSuccess" \in supplied THEN "responseSuccess"
  ELSE "response.data"

\* the request interceptor (lines 244-251): checkDuplicateRequest, then
\* requestSuccess, the caller's or the default one (line 616)
RequestStage ==
  LET stage == IF "requestSuccess" \in input.supplied
               THEN "requestSuccess" ELSE "defaultRequestSuccess"
  IN
  /\ result.at = "start"
  /\ result' = [result EXCEPT
       !.ran = <<"checkDuplicateRequest", stage>>,
       !.at = IF input.thrower = "requestSuccess" THEN "failed" ELSE "sent"]
  /\ UNCHANGED <<locale, input, lifecycleVars, busVars>>

\* the error of the request stage reaches the response error interceptor
\* (lines 279-311): no config, not a cancellation, nothing to retry, so
\* responseError, which is defaultResponseError (line 619), runs
FailureStage ==
  /\ result.at = "failed"
  /\ result' = [result EXCEPT
       !.at = "settled",
       !.ran = Append(@, "defaultResponseError"),
       !.kind = "rejected",
       !.by = "defaultResponseError",
       !.message = defaultResponseError(ThrownError(input.message)).message]
  /\ UNCHANGED <<locale, input, lifecycleVars, busVars>>

\* the transport answered with a success status: the response success
\* interceptor (lines 263-278) removes the entry and hands the response on;
\* a caller's responseSuccess returns the response, a caller's parser
\* response.data, unless it throws
ResponseStage ==
  LET handler == responseHandler(input.supplied)
      parsed == responseParser(input.data)
      throws == input.thrower = handler
  IN
  /\ result.at = "sent"
  /\ result' = [result EXCEPT
       !.at = "settled",
       !.ran = result.ran \o <<"removeRequest", handler>>,
       !.by = handler,
       !.kind = IF handler = "defaultResponseParser"
                THEN (IF parsed.kind = "returned" THEN "returned" ELSE "rejected")
                ELSE IF throws THEN "rejected" ELSE "returned",
       !.value = IF handler = "defaultResponseParser"
                 THEN (IF parsed.kind = "returned" THEN parsed.value.from ELSE "")
                 ELSE IF throws THEN ""
                 ELSE IF handler = "responseSuccess" THEN "response" ELSE "response.data",
       !.message = IF handler = "defaultResponseParser" THEN parsed.message
                   ELSE IF throws THEN input.message ELSE ""]
  /\ UNCHANGED <<locale, input, lifecycleVars, busVars>>

\* download after its get resolved (lines 424-441): response is what the
\* interceptors returned; the Blob is built from response.data and the
\* name is read from response.headers
DownloadStage ==
  LET isResponse == result.value = "response"
      contentDisposition == IF isResponse THEN input.header ELSE <<>>
      filenameMatched == filenameMatch(contentDisposition)
  IN
  /\ input.op = "download"
  /\ result.at = "settled"
  /\ result.kind = "returned"
  /\ result' = [result EXCEPT
       !.at = "saved",
       !.saved = [bytes |-> IF isResponse THEN FileBytes ELSE "undefined",
                  name |-> IF contentDisposition # <<>> /\ filenameMatched # <<>>
                           THEN [k \in 1..Len(filenameMatched) |->
                                   decodeURIComponent(filenameMatched[k])]
                           ELSE <<input.fileName>>]]
  /\ UNCHANGED <<locale, input, lifecycleVars, busVars>>

NextPipeline ==
  \/ RequestStage
  \/ FailureStage
  \/ ResponseStage
  \/ DownloadStage

SpecPipeline == InitPipeline /\ [][NextPipeline]_vars

\* ------------------------------------------------------------------------
\* The event bus of packages/event-bus/src/index.ts (mitt). A call of the
\* bus API from outside is one step when it does not dispatch; emit is
\* followed listener by listener, because a listener may call the bus again
\* before it returns.
\* ------------------------------------------------------------------------
\* Bounds of the bus
MaxListeners == 3
MaxOnce == 1
MaxDepth == 2

\* event names: strings and symbols (EventType, line 2)
StringType(name) == [kind |-> "string", name |-> name]
SymbolType(description) == [kind |-> "symbol", name |-> description]
Wildcard == StringType("*")
\* the names a caller listens to and emits: Symbol("__proto__") is the symbol
ListenTypes == {StringType("a"), Wildcard, SymbolType("__proto__")}
\* the names a caller passes to on and once
OnTypes == ListenTypes \cup {StringType("__proto__"), StringType("constructor"),
                             StringType("prototype")}
\* event payloads, and the argument that was not passed
EventValue(name) == [kind |-> "value", name |-> name]
Payloads == {EventValue("p"), EventValue("q")}
NoArgument == [kind |-> "undefined", name |-> ""]

\* the functions a caller registers: g does nothing, thrower throws, actor
\* calls the bus from inside as given by input
Functions == {"g", "thrower", "actor"}
\* handlers that are not functions (typeof handler !== "function")
NonFunctions == {"null", "undefined", "string", "object"}
\* what actor does when it is invoked: on, once or off of g, or emit, on type
ActorScripts == [op : {"on", "once", "off", "emit"},
                 type : {StringType("a"), Wildcard}]

\* the members of a listener list: a registered function itself, or the
\* wrap closure that once creates (lines 110-124), one closure per call
NoType == StringType("")
Fn(handler) == [wrap |-> FALSE, handler |-> handler, id |-> 0, type |-> NoType]
Wrap(type, handler, id) == [wrap |-> TRUE, handler |-> handler, id |-> id, type |-> type]

\* off called without a handler, and the handlers that !handler takes for none
NoHandler == Fn("undefined")
Falsy(listener) == ~listener.wrap /\ listener.handler \in {"undefined", "null"}

\* Map operations: set, delete, has (all is a Map, line 75)
MapSet(m, type, list) == [t \in DOMAIN m \cup {type} |-> IF t = type THEN list ELSE m[t]]
MapDelete(m, type) == [t \in DOMAIN m \ {type} |-> m[t]]
\* getArray (lines 77-79): the list of the type, no list as the empty one
getArray(m, type) == IF type \in DOMAIN m THEN m[type] ELSE <<>>

\* the check of add (lines 83-85)
NotAllowed(type) ==
  type.kind = "string" /\ type.name \in {"__proto__", "constructor", "prototype"}
\* add without the check of the name
addAnyName(m, type, handler) ==
  [all |-> IF type \in DOMAIN m THEN [m EXCEPT ![type] = Append(@, handler)]
                                ELSE MapSet(m, type, <<handler>>),
   thrown |-> "none"]
\* add (lines 81-93): the map after the call and what the call threw
add(m, type, handler) ==
  IF NotAllowed(type) THEN [all |-> m, thrown |-> "Error"]
  ELSE [all |-> IF type \in DOMAIN m THEN [m EXCEPT ![type] = Append(@, handler)]
                                     ELSE MapSet(m, type, <<handler>>),
        thrown |-> "none"]

\* on (lines 98-103)
on(m, type, handler) ==
  IF handler \notin Functions THEN [all |-> m, thrown |-> "TypeError"]
  ELSE add(m, type, Fn(handler))

\* once (lines 105-126): id names the new closure
once(m, type, handler, id) ==
  IF handler \notin Functions THEN [all |-> m, thrown |-> "TypeError"]
  ELSE add(m, type, Wrap(type, handler, id))

\* indexOf and splice of off: the first position of the listener, 0 for -1
indexOf(list, listener) ==
  IF \E k \in 1..Len(list) : list[k] = listener
  THEN CHOOSE k \in 1..Len(list) :
         list[k] = listener /\ \A j \in 1..(k - 1) : list[j] # listener
  ELSE 0
\* splice that drops the rest of the list
spliceRest(list, idx) == SubSeq(list, 1, idx - 1)
splice(list, idx) == SubSeq(list, 1, idx - 1) \o SubSeq(list, idx + 1, Len(list))

\* off (lines 128-143); listener is NoHandler when no handler is passed
offKeepKey(m, type, listener) ==
  IF type \notin DOMAIN m \/ Len(m[type]) = 0 THEN m
  ELSE IF Falsy(listener) THEN MapDelete(m, type)
  ELSE LET idx == indexOf(m[type], listener)
       IN MapSet(m, type, IF idx > 0 THEN splice(m[type], idx) ELSE m[type])

off(m, type, listener) ==
  IF type \notin DOMAIN m \/ Len(m[type]) = 0 THEN m
  ELSE IF Falsy(listener) THEN MapDelete(m, type)
  ELSE LET idx == indexOf(m[type], listener)
           list == IF idx > 0 THEN splice(m[type], idx) ELSE m[type]
       IN IF Len(list) = 0 THEN MapDelete(m, type) ELSE MapSet(m, type, list)

\* has (lines 179-182), listenerCount (184-187), eventNames (193-195),
\* listenerCountAll (197-203)
has(m, type) == type \in DOMAIN m /\ Len(m[type]) > 0
listenerCount(m, type) == IF type \in DOMAIN m THEN Len(m[type]) ELSE 0
eventNames(m) == DOMAIN m
RECURSIVE SumCounts(_, _)
SumCounts(m, types) ==
  IF types = {} THEN 0
  ELSE LET t == CHOOSE x \in types : TRUE
       IN Len(m[t]) + SumCounts(m, types \ {t})
listenerCountAll(m) == SumCounts(m, DOMAIN m)

\* One emit call in progress (lines 145-177): the copy of the list it walks,
\* the position in it, and whether the listener at that position has been
\* called and has not returned ("exit", running is that listener). startAll
\* and invoked are history: the map when emit was called, and the handlers
\* run by this call with the arguments they received.
NewFrame(m, type, evt) ==
  [type |-> type, evt |-> evt, phase |-> "exact", copy |-> getArray(m, type), i |-> 1,
   at |-> "next", running |-> NoHandler, threw |-> FALSE, startAll |-> m, invoked |-> <<>>]
Top == stack[Len(stack)]
\* the list the loop of emit walks: not the list of the map
handlersLive(frame, m) ==
  getArray(m, IF frame.phase = "exact" THEN frame.type ELSE Wildcard)
\* the list the loop of emit walks: the copy (lines 150-151, 165-166)
handlersCopy(frame, m) == frame.copy
Below == SubSeq(stack, 1, Len(stack) - 1)

\* the arguments the registered function receives: emit passes (evt) to the
\* listeners of the type and (type, evt) to those of "*" (lines 153, 168);
\* wrap takes them as (evt, _typeForWildcard) and passes
\* (_typeForWildcard, evt) on when it was registered for "*" (lines 110-117)
HandlerArgs(frame, listener) ==
  LET passed == IF frame.phase = "exact" THEN <<frame.evt, NoArgument>>
                                        ELSE <<frame.type, frame.evt>>
  IN IF ~listener.wrap THEN passed
     ELSE IF listener.type = Wildcard THEN <<passed[2], passed[1]>>
     ELSE <<passed[1], NoArgument>>

\* the closures of once that are still referenced: by the map, by a copy, or
\* by the history of an emit in progress
RECURSIVE ListsOf(_, _)
ListsOf(m, types) ==
  IF types = {} THEN {}
  ELSE LET t == CHOOSE x \in types : TRUE
       IN {m[t]} \cup ListsOf(m, types \ {t})
Members(lists) == UNION {{list[k] : k \in 1..Len(list)} : list \in lists}
Referenced(m, st) ==
  {l \in Members(ListsOf(m, DOMAIN m)
                 \cup {st[k].copy : k \in 1..Len(st)}
                 \cup UNION {ListsOf(st[k].startAll, DOMAIN st[k].startAll) : k \in 1..Len(st)}) :
     l.wrap}
IdsInUse(m, st) == {l.id : l \in Referenced(m, st)}
FreshId(m, st) == CHOOSE n \in 1..(Cardinality(IdsInUse(m, st)) + 1) :
                    n \notin IdsInUse(m, st) /\ \A k \in 1..(n - 1) : k \in IdsInUse(m, st)
Registered(m) == Members(ListsOf(m, DOMAIN m))

\* what the catch of emit lets through (lines 154-159, 169-174): nothing
emitRethrow(threw) == threw
emitCatch(threw) == FALSE

InitBus ==
  /\ IdleLifecycle
  /\ IdleBus
  /\ locale = "zh"
  /\ input \in ActorScripts
  /\ result = NoResult

\* bus.on(type, handler), called from outside
On(type, handler) ==
  /\ stack = <<>>
  /\ listenerCountAll(all) < MaxListeners
  /\ all' = on(all, type, handler).all
  /\ thrown' = on(all, type, handler).thrown
  /\ UNCHANGED <<stack, fired, locale, input, result, lifecycleVars>>

\* bus.once(type, handler), called from outside
Once(type, handler) ==
  /\ stack = <<>>
  /\ listenerCountAll(all) < MaxListeners
  /\ Cardinality(IdsInUse(all, stack)) < MaxOnce
  /\ all' = once(all, type, handler, FreshId(all, stack)).all
  /\ thrown' = once(all, type, handler, FreshId(all, stack)).thrown
  /\ UNCHANGED <<stack, fired, locale, input, result, lifecycleVars>>

\* bus.off(type, handler) and bus.off(type), called from outside
Off(type, handler) ==
  /\ stack = <<>>
  /\ all' = off(all, type, Fn(handler))
  /\ thrown' = "none"
  /\ fired' = fired \cap IdsInUse(all', stack)
  /\ UNCHANGED <<stack, locale, input, result, lifecycleVars>>

\* bus.clear() (lines 189-191)
Clear ==
  /\ stack = <<>>
  /\ all' = <<>>
  /\ thrown' = "none"
  /\ fired' = {}
  /\ UNCHANGED <<stack, locale, input, result, lifecycleVars>>

\* bus.emit(type, evt), called from outside: the listeners of the type are
\* fetched and copied (lines 147-150)
Emit(type, evt) ==
  /\ stack = <<>>
  /\ listenerCountAll(all) <= MaxListeners
  /\ stack' = <<NewFrame(all, type, evt)>>
  /\ thrown' = "none"
  /\ UNCHANGED <<all, fired, locale, input, result, lifecycleVars>>

\* emit calls the listener at the position of the copy (lines 153, 168) and
\* the registered function runs up to its return, its throw, or its own call
\* of emit. actor adds a listener only while the bus holds fewer than
\* MaxListeners; an emit nested deeper than MaxDepth exhausts the call stack
\* and throws inside the function that called it.
InvokeListener ==
  /\ stack # <<>>
  /\ Top.at = "next"
  /\ Top.i <= Len(handlersCopy(Top, all))
  /\ LET frame == Top
         listener == handlersCopy(frame, all)[frame.i]
         acts(op) == listener.handler = "actor" /\ input.op = op
         room == listenerCountAll(all) < MaxListeners
         nests == acts("emit") /\ Len(stack) < MaxDepth
         called == [frame EXCEPT !.at = "exit", !.running = listener,
                                 !.invoked = Append(@, [listener |-> listener,
                                                        args |-> HandlerArgs(frame, listener),
                                                        phase |-> frame.phase])]
     IN /\ all' = IF acts("on") /\ room THEN on(all, input.type, "g").all
                  ELSE IF acts("once") /\ room
                    THEN once(all, input.type, "g", FreshId(all, stack)).all
                  ELSE IF acts("off") THEN off(all, input.type, Fn("g"))
                  ELSE all
        /\ stack' = IF nests
                    THEN Below \o <<called, NewFrame(all, input.type, EventValue("p"))>>
                    ELSE Below \o <<[called EXCEPT !.threw = listener.handler = "thrower"
                                                             \/ acts("emit")]>>
        /\ fired' = IF listener.wrap THEN fired \cup {listener.id} ELSE fired
  /\ UNCHANGED <<thrown, locale, input, result, lifecycleVars>>

\* the listener returns or throws: the finally of wrap removes the closure
\* (lines 118-121), the catch of emit takes the error and the loop goes on
\* (lines 151-160, 166-175)
HandlerReturn ==
  /\ stack # <<>>
  /\ Top.at = "exit"
  /\ LET frame == Top
         listener == frame.running
         escapes == emitCatch(frame.threw)
     IN /\ all' = IF listener.wrap THEN off(all, listener.type, listener) ELSE all
        /\ stack' = IF ~escapes
                    THEN Below \o <<[frame EXCEPT !.i = @ + 1, !.at = "next", !.threw = FALSE]>>
                    ELSE IF Below = <<>> THEN <<>>
                    ELSE [Below EXCEPT ![Len(Below)].threw = TRUE]
        /\ thrown' = IF escapes /\ Below = <<>> THEN "HandlerError" ELSE thrown
        /\ fired' = fired \cap IdsInUse(all', stack')
  /\ UNCHANGED <<locale, input, result, lifecycleVars>>

\* the listeners of the type are done: the list of "*" is fetched and copied
\* (lines 163-165)
FetchWildcard ==
  /\ stack # <<>>
  /\ Top.at = "next"
  /\ Top.phase = "exact"
  /\ Top.i > Len(handlersCopy(Top, all))
  /\ stack' = Below \o <<[Top EXCEPT !.phase = "wildcard", !.i = 1,
                                     !.copy = getArray(all, Wildcard)]>>
  /\ fired' = fired \cap IdsInUse(all, stack')
  /\ UNCHANGED <<all, thrown, locale, input, result, lifecycleVars>>

\* the listeners of "*" are done: emit returns (line 177)
EmitReturn ==
  /\ stack # <<>>
  /\ Top.at = "next"
  /\ Top.phase = "wildcard"
  /\ Top.i > Len(handlersCopy(Top, all))
  /\ stack' = Below
  /\ fired' = fired \cap IdsInUse(all, stack')
  /\ UNCHANGED <<all, thrown, locale, input, result, lifecycleVars>>

NextBus ==
  \/ \E type \in OnTypes, handler \in Functions \cup NonFunctions : On(type, handler)
  \/ \E type \in OnTypes, handler \in Functions \cup NonFunctions : Once(type, handler)
  \/ \E type \in ListenTypes, handler \in Functions \cup {"undefined"} : Off(type, handler)
  \/ Clear
  \/ \E type \in ListenTypes, evt \in Payloads : Emit(type, evt)
  \/ InvokeListener
  \/ HandlerReturn
  \/ FetchWildcard
  \/ EmitReturn

SpecBus == InitBus /\ [][NextBus]_vars

\* ------------------------------------------------------------------------
\* A burst: MaxBurst calls of one request, all issued within the debounce
\* window (the clock stands still), on an instance without retries. The
\* transport answers or the signal is aborted; the steps are those of the
\* request lifecycle.
\* ------------------------------------------------------------------------
MaxBurst == 3
BurstCalls == 1..MaxBurst
BurstConfig == [url |-> "/a", params |-> ""]

InitBurst ==
  /\ retryTimes = 0
  /\ retryCondition = "default"
  /\ now = 0
  /\ pendingRequests = [k \in Keys |-> NoEntry]
  /\ pc = [c \in BurstCalls |-> "idle"]
  /\ config = [c \in BurstCalls |-> NoConfig]
  /\ signal = [c \in BurstCalls |-> "active"]
  /\ retryCount = [c \in BurstCalls |-> 0]
  /\ due = [c \in BurstCalls |-> 0]
  /\ outcome = [c \in BurstCalls |-> Pending]
  /\ calls = [c \in BurstCalls |-> 0]
  /\ late = {}
  /\ stageRuns = [c \in BurstCalls |-> 0]
  /\ IdleBus
  /\ locale = "zh"
  /\ input = NoInput
  /\ result = NoResult

NextBurst ==
  \/ \E c \in BurstCalls : Request(c, BurstConfig) /\ \A d \in 1..(c - 1) : pc[d] # "idle"
  \/ \E c \in BurstCalls :
       RequestInterceptor(c, TRUE) /\ \A d \in 1..(c - 1) : pc[d] \notin {"idle", "queued"}
  \/ \E c \in BurstCalls : Dispatch(c)
  \/ \E c \in BurstCalls, code \in AppCodes : ResponseSuccess(c, code)
  \/ \E c \in BurstCalls : ResponseCancelled(c)

SpecBurst == InitBurst /\ [][NextBurst]_vars

\* ------------------------------------------------------------------------
\* Construction of the instance: the config object handed to axios.create.
\* An optional property is <<>> when it is not given and <<v>> when it has
\* the value v.
\* ------------------------------------------------------------------------
NotGiven == <<>>
Given(x) == x # NotGiven
Timeouts == {0, 5000}
BaseURLs == {"", "/api", "/v2"}
Optional(S) == {NotGiven} \cup {<<v>> : v \in S}
HttpConfigs == [baseURL : Optional(BaseURLs \ {""}), timeout : Optional(Timeouts)]
Options == [baseURL : Optional(BaseURLs), timeout : Optional(Timeouts),
            httpConfig : Optional(HttpConfigs)]

\* options.baseURL || "": an empty string is falsy
thisBaseURL(options) ==
  IF Given(options.baseURL) /\ options.baseURL[1] # "" THEN options.baseURL ELSE <<"">>

\* options.timeout ?? options.httpConfig?.timeout
mergedTimeout(options) ==
  IF Given(options.timeout) THEN options.timeout
  ELSE IF Given(options.httpConfig) THEN options.httpConfig[1].timeout
  ELSE NotGiven

\* { ...target, ...source }: every property that source has replaces the
\* one of target
spread(target, source) ==
  [k \in DOMAIN target |-> IF Given(source[k]) THEN source[k] ELSE target[k]]

\* the argument of axios.create
createConfig(options) ==
  LET first == [baseURL |-> thisBaseURL(options), timeout |-> mergedTimeout(options)] IN
  IF Given(options.httpConfig) THEN spread(first, options.httpConfig[1]) ELSE first

InitOptions ==
  /\ IdleLifecycle
  /\ IdleBus
  /\ locale = "zh"
  /\ input \in Options
  /\ result = NotGiven

Construct ==
  /\ result = NotGiven
  /\ result' = <<createConfig(input)>>
  /\ UNCHANGED <<locale, input, lifecycleVars, busVars>>

NextOptions == Construct

SpecOptions == InitOptions /\ [][NextOptions]_vars

\* ------------------------------------------------------------------------
\* Shorthands of the properties
\* ------------------------------------------------------------------------
KeyOf(c) == defaultGenerateRequestKey(config[c])
EntryOf(c) == pendingRequests[KeyOf(c)]
\* the call is registered and waits for dispatch or for the transport
Awaiting(c) == pc[c] \in {"registered", "inflight"}
Aborted(c) == signal[c] # "active"
Done(c) == pc[c] = "done"
Quiescent == \A c \in Calls : pc[c] \in {"idle", "done"}
\* the request interceptor of call c runs in this step
Registers(c) == pc[c] = "queued" /\ pc'[c] # "queued"
\* the call has been registered and has not reached its terminal outcome
Unsettled(c) ==
  \/ pc[c] \in {"registered", "reqFailed", "inflight", "delay"}
  \/ pc[c] = "queued" /\ retryCount[c] > 0
\* the outcome is a transport failure without a response or with a 5xx response
TransientFailure(o) == o.kind = "error" /\ (o.status = 0 \/ o.status >= 500)

\* ------------------------------------------------------------------------
\* C1: whenever no call is in flight, about to be dispatched or waiting on a
\* retry delay, the pendingRequests registry is empty: no finishing path
\* leaves an entry behind.
C1_RegistryEmptyWhenQuiescent ==
  Quiescent => \A k \in Keys : pendingRequests[k] = NoEntry

C3_LateDuplicatesIndependent ==
  \A pair \in late :
    (\A d \in Calls : d \notin {pair[1], pair[2]} => config[d] # config[pair[1]])
    => \A c \in {pair[1], pair[2]} :
         /\ ~(Awaiting(c) /\ signal[c] = "duplicate")
         /\ outcome[c].kind = "cancelled" => signal[c] = "manual"

\* ------------------------------------------------------------------------
\* C4: every call that is registered, not aborted and not yet at its
\* terminal outcome has an entry under its key, and the entry holds the
\* controller of that very call.
C4_UnsettledCallHasEntry ==
  \A c \in Calls : (Unsettled(c) /\ ~Aborted(c)) => EntryOf(c).owner = c

\* ------------------------------------------------------------------------
\* C5: cancelRequest(url) with a non-empty url removes exactly the entries
\* whose url is url and aborts exactly the controllers they hold; every
\* other entry stays, no other call is aborted, and no call's position,
\* outcome or retry state changes.
C5_CancelByUrlFrame ==
  [][\A u \in Urls :
       CancelRequest(u)
       => /\ \A k \in Keys :
               pendingRequests'[k] =
                 IF pendingRequests[k].url = u THEN NoEntry ELSE pendingRequests[k]
          /\ \A c \in Calls :
               IF \E k \in Keys : pendingRequests[k].owner = c /\ pendingRequests[k].url = u
               THEN signal'[c] # "active"
               ELSE signal'[c] = signal[c]
          /\ UNCHANGED <<pc, outcome, calls, retryCount, due, config>>]_vars

\* cancelRequest("/a") has aborted a call to /a in flight while a call issued
\* before it is in flight to /b, registered and not aborted
C5_Witness ==
  \E c, d \in Calls :
    /\ d < c
    /\ config[c].url = "/a" /\ config[d].url = "/b"
    /\ pc[c] = "inflight" /\ signal[c] = "manual"
    /\ EntryOf(c) = NoEntry
    /\ pc[d] = "inflight" /\ signal[d] = "active" /\ EntryOf(d).owner = d

\* ------------------------------------------------------------------------
\* C6: cancelRequest() without a url aborts every call that is in flight
\* at that moment and leaves the registry empty.
C6_CancelAllAbortsInFlight ==
  [][CancelRequest("")
     => /\ \A c \in Calls : pc[c] = "inflight" => signal'[c] # "active"
        /\ \A k \in Keys : pendingRequests'[k] = NoEntry]_vars

\* ------------------------------------------------------------------------
\* C7: with retryTimes = 1 and the default retry condition, a call whose
\* transport attempt failed with a transient failure (no response, or a
\* 5xx response) does not end with that failure after a single transport
\* invocation: the second attempt is made, so that a failing-then-succeeding
\* transport yields the success result after exactly two invocations.
C7_FailedAttemptIsRetried ==
  \A c \in Calls :
    (/\ retryTimes = 1
     /\ retryCondition = "default"
     /\ Done(c)
     /\ TransientFailure(outcome[c]))
    => calls[c] = 2

\* ------------------------------------------------------------------------
\* C8: the transport is invoked at most retryTimes + 1 times for a call,
\* whatever the retry condition; with retryTimes = 0 a call that ended with
\* the outcome of a transport invocation (success, business failure or
\* transport failure) was invoked exactly once.
C8_AtMostRetryTimesPlusOne ==
  \A c \in Calls :
    /\ calls[c] <= retryTimes + 1
    /\ (retryTimes = 0 /\ Done(c) /\ outcome[c].kind \in {"success", "business", "error"})
       => calls[c] = 1

\* a call used up all its retries and ended with the last failure
C8_Witness ==
  \E c \in Calls :
    /\ retryTimes >= 1
    /\ calls[c] = retryTimes + 1
    /\ Done(c)
    /\ outcome[c].kind = "error"

\* ------------------------------------------------------------------------
\* C9: a cancelled attempt is never retried, for any retryTimes and retry
\* condition: once the controller of a call that awaits its transport is
\* aborted, the transport is not invoked again for it, its only step is to
\* finish, with the cancellation error, and a finished call stays finished.
C9_CancellationNeverRetried ==
  /\ [][\A c \in Calls :
          (Awaiting(c) /\ Aborted(c))
          => /\ calls'[c] = calls[c]
             /\ pc'[c] \in {pc[c], "done"}
             /\ pc'[c] = "done" => outcome'[c].kind = "cancelled"]_vars
  /\ [][\A c \in Calls :
          Done(c) => Done(c)' /\ calls'[c] = calls[c] /\ outcome'[c] = outcome[c]]_vars

\* a call was cancelled in flight although a retry was left and the retry
\* condition accepts every failure
C9_Witness ==
  \E c \in Calls :
    /\ retryCondition = "always"
    /\ retryCount[c] < retryTimes
    /\ calls[c] >= 1
    /\ Done(c)
    /\ outcome[c].kind = "cancelled"

\* ------------------------------------------------------------------------
\* C10: a cancelRequest that matches a call waiting on its retry delay
\* (its url, or no url) aborts that call: the retry is not issued.
C10_CancelDuringRetryDelay ==
  [][\A c \in Calls :
       (pc[c] = "delay" /\ (CancelRequest(config[c].url) \/ CancelRequest("")))
       => signal'[c] # "active"]_vars

\* ------------------------------------------------------------------------
\* C11: a call registers in pendingRequests exactly once: the step that
\* re-issues a retry does not run the duplicate check and installs no new
\* entry and controller, so only a call that has not failed before
\* (config._retryCount unset) ever registers.
C11_RetryDoesNotRegister ==
  [][\A c \in Calls : Registers(c) => retryCount[c] = 0]_vars

\* ------------------------------------------------------------------------
\* C12: the default retry condition answers true exactly for a failure
\* without a response whose request was sent (a network-level failure) and
\* for a failure with a response status in [500, 600).
C12_DefaultRetryCondition ==
  (input.stage = "retryCondition" /\ result.kind = "decided")
  => (result.retry <=>
        \/ input.error.status = 0 /\ input.error.hasRequest
        \/ input.error.status >= 500 /\ input.error.status < 600)

\* ------------------------------------------------------------------------
\* C13: under the default retry condition a transport failure with a 4xx
\* response ends the call with that failure, whatever retryTimes is, and a
\* business failure ends the call under every configuration; neither step
\* is followed by a further transport invocation, so a call whose first
\* answer is one of the two was sent exactly once.
C13_ClientAndBusinessFailuresNotRetried ==
  /\ [][\A c \in Calls, e \in TransportErrors :
          (/\ retryCondition = "default"
           /\ e.status >= 400 /\ e.status < 500
           /\ TransportFail(c, e))
          => /\ pc'[c] = "done"
             /\ outcome'[c] = [kind |-> "error", code |-> e.code, status |-> e.status]]_vars
  /\ [][\A c \in Calls :
          (outcome[c].kind # "business" /\ outcome'[c].kind = "business")
          => pc'[c] = "done"]_vars
  /\ [][\A c \in Calls : Done(c) => Done(c)' /\ calls'[c] = calls[c]]_vars
  /\ [](\A c \in Calls :
          /\ (Done(c) /\ outcome[c].kind = "business" /\ retryCount[c] = 0)
             => calls[c] = 1
          /\ (/\ Done(c) /\ retryCondition = "default" /\ outcome[c].kind = "error"
              /\ outcome[c].status >= 400 /\ outcome[c].status < 500
              /\ retryCount[c] <= 1)
             => calls[c] = 1)

\* with retries configured, one call ended with a 404 and another with a
\* business failure, each after a single transport invocation
C13_Witness ==
  \E c, d \in Calls :
    /\ retryTimes >= 1 /\ retryCondition = "default"
    /\ Done(c) /\ outcome[c].kind = "error" /\ outcome[c].status = 404 /\ calls[c] = 1
    /\ Done(d) /\ outcome[d].kind = "business" /\ calls[d] = 1

\* ------------------------------------------------------------------------
\* C14: for an object body whose code is a number or a decimal numeral
\* given as text, the default parser returns exactly the body's data field
\* when that number is in successCodes, and otherwise rejects with a
\* BusinessError that carries that number and the body's msg, else its
\* message, else the fallback text.
C14_CodeClassification ==
  LET d == input.data
      n == CASE d.code = Str(<<"2", "0", "0">>) -> 200
             [] d.code = Str(<<"4", "0", "3">>) -> 403
             [] OTHER -> d.code.n
  IN (/\ input.stage = "responseParser"
      /\ result # NoResult
      /\ d.type = "object"
      /\ d.code \in {Num(0), Num(200), Num(403), Str(<<"2", "0", "0">>), Str(<<"4", "0", "3">>)})
     => IF n \in successCodes
        THEN /\ result.kind = "returned"
             /\ result.value.from = "data.data"
             /\ result.value.data = d.data
        ELSE /\ result.kind = "BusinessError"
             /\ result.code = Num(n)
             /\ result.message = IF d.msg # "" THEN d.msg
                                 ELSE IF d.message # "" THEN d.message
                                 ELSE BusinessFallback

\* {code: "403", msg: "nope"} was rejected with BusinessError("nope", 403)
C14_Witness ==
  /\ input.stage = "responseParser"
  /\ input.data.code = Str(<<"4", "0", "3">>)
  /\ input.data.msg = "nope"
  /\ result.kind = "BusinessError"
  /\ result.code = Num(403)
  /\ result.message = "nope"

\* ------------------------------------------------------------------------
\* C15: the default parser returns a body that is there and has no code
\* field (undefined or null) unmodified, and rejects with the empty
\* response error only when there is no body at all (undefined, null or
\* the empty text).
C15_NoCodePassesThrough ==
  LET d == input.data
      absent == d.type \in {"undefined", "null"} \/ (d.type = "string" /\ d.text = "")
  IN (input.stage = "responseParser" /\ result # NoResult)
     => /\ (~absent /\ d.code.type \in {"undefined", "null"})
           => result = Returned("response.data", "", d)
        /\ absent => result.kind = "Error" /\ result.message = EmptyResponse
        /\ result.kind = "Error" => absent

\* ------------------------------------------------------------------------
\* C16: a call is handed a BusinessError exactly when its transport
\* answered with a success-status response whose application code is
\* outside successCodes: the response success interceptor yields a business
\* failure for such a code and for no other, and no run of the response
\* error interceptor (transport failure, cancellation, failed request
\* stage) yields one.
C16_BusinessErrorOnlyFromParser ==
  [][\A c \in Calls :
       /\ (outcome[c].kind # "business" /\ outcome'[c].kind = "business")
          => \E code \in AppCodes : code \notin successCodes /\ ResponseSuccess(c, code)
       /\ \A code \in AppCodes :
            ResponseSuccess(c, code)
            => (outcome'[c].kind = "business" <=> code \notin successCodes)
       /\ (\/ \E e \in TransportErrors : TransportFail(c, e)
           \/ ResponseCancelled(c)
           \/ StageErrorDelivered(c))
          => outcome'[c].kind # "business"]_vars

\* one call ended with a business failure, another with a transport failure
C16_Witness ==
  \E c, d \in Calls :
    /\ Done(c) /\ outcome[c].kind = "business" /\ outcome[c].status = 403
    /\ Done(d) /\ outcome[d].kind = "error"

\* ------------------------------------------------------------------------
\* C17: a failure that is not a timeout and carries a response with status
\* 401, 403, 404 or 500 is rejected with the fixed message of the
\* configured locale for that status, whatever the body contains; for 401
\* that is "Unauthorized, please log in again" in en and the zh text for
\* unauthorized in zh.
C17_FixedStatusMessages ==
  LET e == input.error
      timeout == e.code = "ECONNABORTED" \/ e.message \in TimeoutMessages
  IN (/\ input.stage = "responseError"
      /\ result # NoResult
      /\ ~e.isCancel
      /\ ~timeout
      /\ e.status \in {401, 403, 404, 500})
     => /\ result.kind = "AxiosError"
        /\ result.message =
             CASE e.status = 401 -> messages[locale].unauthorized
               [] e.status = 403 -> messages[locale].forbidden
               [] e.status = 404 -> messages[locale].notFound
               [] OTHER -> messages[locale].internalServerError
        /\ (e.status = 401 /\ locale = "en")
           => result.message = "Unauthorized, please log in again"
        /\ (e.status = 401 /\ locale = "zh")
           => result.message = "zh:unauthorized, please log in again"

\* a 401 whose body carries a message of its own was rejected with the en text
C17_Witness ==
  /\ input.stage = "responseError"
  /\ locale = "en"
  /\ input.error.status = 401
  /\ input.error.bodyMessage = "denied"
  /\ result.message = "Unauthorized, please log in again"

\* ------------------------------------------------------------------------
\* C18: a failure that is not a timeout and carries a response whose status
\* is none of 401, 403, 404, 500 is rejected with the server error template
\* of the configured locale instantiated with that status.
C18_GenericStatusTemplate ==
  LET e == input.error
      timeout == e.code = "ECONNABORTED" \/ e.message \in TimeoutMessages
  IN (/\ input.stage = "responseError"
      /\ result # NoResult
      /\ ~e.isCancel
      /\ ~timeout
      /\ e.status # 0
      /\ e.status \notin {401, 403, 404, 500})
     => result.message = serverError(locale, e.status)

\* ------------------------------------------------------------------------
\* C19: a failure that is not a cancellation is rejected with the timeout
\* message of the locale when its code is ECONNABORTED or its message names
\* a timeout; else, when it carries a response, with a message of the
\* status branch (neither the timeout nor the network error message); and
\* in every remaining case with the network error message.
C19_ClassificationPrecedence ==
  LET e == input.error
      timeout == e.code = "ECONNABORTED" \/ e.message \in TimeoutMessages
      msg == messages[locale]
  IN (input.stage = "responseError" /\ result # NoResult /\ ~e.isCancel)
     => /\ timeout => result.message = msg.timeout
        /\ (~timeout /\ e.status # 0) => result.message \notin {msg.timeout, msg.networkError}
        /\ (~timeout /\ e.status = 0) => result.message = msg.networkError

\* ------------------------------------------------------------------------
\* C20: with locale en no failure reaches the caller with a text of the zh
\* table or with a Chinese text written in the code, whichever stage
\* produced it: cancellation, timeout, network failure, status, business
\* failure without a message in the body, empty response.
C20_MessagesInLocale ==
  LET zhTexts == {messages.zh[k] : k \in DOMAIN messages.zh}
                 \cup {serverError("zh", st) : st \in {400, 502}}
                 \cup {BusinessFallback, EmptyResponse}
  IN (/\ locale = "en"
      /\ input.stage \in {"responseError", "responseParser"}
      /\ result.kind \in {"AxiosError", "CanceledError", "BusinessError", "Error"})
     => result.message \notin zhTexts

\* ------------------------------------------------------------------------
\* C21: two configs with the same url and method whose params and data are
\* of the same kind and hold the same fields, in whatever order, get the
\* same default request key.
C21_KeyIgnoresFieldOrder ==
  LET same(v, w) == /\ v.type = w.type
                    /\ v.text = w.text
                    /\ Len(v.entries) = Len(w.entries)
                    /\ {v.entries[i] : i \in 1..Len(v.entries)}
                         = {w.entries[i] : i \in 1..Len(w.entries)}
  IN (/\ result # <<>>
      /\ input.first.url = input.second.url
      /\ input.first.method = input.second.method
      /\ same(input.first.params, input.second.params)
      /\ same(input.first.data, input.second.data))
     => result[1] = result[2]

\* ------------------------------------------------------------------------
\* C22: when the requestSuccess stage of an attempt fails, that attempt
\* never reaches the transport: the call's only further step is the
\* response error interceptor, which ends the call with that failure; a
\* call whose first attempt failed this way was never sent.
C22_FailedRequestStageSkipsTransport ==
  /\ [][\A c \in Calls :
          pc[c] = "reqFailed"
          => /\ calls'[c] = calls[c]
             /\ pc'[c] \in {"reqFailed", "done"}
             /\ pc'[c] = "done" => outcome'[c].kind = "stage"]_vars
  /\ [][\A c \in Calls : Done(c) => Done(c)' /\ calls'[c] = calls[c]]_vars
  /\ [](\A c \in Calls :
          (Done(c) /\ outcome[c].kind = "stage" /\ retryCount[c] = 0) => calls[c] = 0)

\* a call ended with the failure of its request stage and was never sent,
\* although retries are configured for every failure
C22_Witness ==
  \E c \in Calls :
    /\ retryTimes >= 1 /\ retryCondition = "always"
    /\ Done(c) /\ outcome[c].kind = "stage" /\ calls[c] = 0

\* ------------------------------------------------------------------------
\* C23: when a stage supplied by the caller (requestSuccess,
\* responseSuccess or responseParser) runs and throws, the call is rejected
\* with the message the stage threw: no default stage rewrites it.
C23_CallerStageFailureUnchanged ==
  (/\ result.at \in {"settled", "saved"}
   /\ input.thrower # "none"
   /\ \E i \in 1..Len(result.ran) : result.ran[i] = input.thrower)
  => result.kind = "rejected" /\ result.message = input.message

C25_DownloadSavesBodyUnderHeaderName ==
  (input.op = "download" /\ input.supplied = {} /\ result.at = "saved")
  => /\ result.saved.bytes = FileBytes
     /\ input.header = <<>> => result.saved.name = <<input.fileName>>
     /\ input.header = <<"attachment; ", "filename=", "r.pdf">>
        => result.saved.name = <<"r.pdf">>
     /\ input.header = <<"attachment; ", "filename=", "\"", "r%20x.pdf", "\"">>
        => result.saved.name \in {<<"r x.pdf">>, <<"r%20x.pdf">>}

\* ------------------------------------------------------------------------
\* Shorthands of the bus properties
\* ------------------------------------------------------------------------
\* the emit calls in progress, and those that have called their last listener
Frames == {stack[k] : k \in 1..Len(stack)}
Finished(frame) ==
  /\ frame.at = "next"
  /\ frame.phase = "wildcard"
  /\ frame.i > Len(handlersCopy(frame, all))
\* the listeners of the frame's type and of "*" when its emit was called
ExactAtStart(frame) == getArray(frame.startAll, frame.type)
WildcardAtStart(frame) == getArray(frame.startAll, Wildcard)
\* the one-shot closures registered for the frame's type when emit was called
OnceAtStart(frame) == {l \in Members({ExactAtStart(frame)}) : l.wrap}
\* the listeners the frame has invoked in a phase, in order
RECURSIVE InvokedIn(_, _)
InvokedIn(invoked, phase) ==
  IF invoked = <<>> THEN <<>>
  ELSE (IF invoked[1].phase = phase THEN <<invoked[1].listener>> ELSE <<>>)
       \o InvokedIn(Tail(invoked), phase)
\* emit calls a listener in this step
Invokes ==
  stack # <<>> /\ Top.at = "next" /\ Top.i <= Len(handlersCopy(Top, all)) /\ stack' # stack
Invoked == handlersCopy(Top, all)[Top.i]

\* ------------------------------------------------------------------------
\* C26: after once(type, h), h is invoked exactly once over the emit(type)
\* calls that follow: the first of them invokes it with its payload, the
\* one-shot listener is gone from the map when that emit is done, also when
\* h throws, and no emit invokes it a second time.
\* ------------------------------------------------------------------------
C26_OnceInvokedExactlyOnce ==
  /\ [](\A frame \in Frames : Finished(frame) =>
          \A w \in OnceAtStart(frame) :
            /\ w \notin Registered(all)
            /\ \E k \in 1..Len(frame.invoked) :
                 /\ frame.invoked[k].listener = w
                 /\ frame.evt \in {frame.invoked[k].args[1], frame.invoked[k].args[2]})
  /\ [][Invokes /\ Invoked.wrap => Invoked.id \notin fired]_vars

\* the number of times the listener occurs in the list
RECURSIVE Count(_, _)
Count(list, listener) ==
  IF list = <<>> THEN 0
  ELSE (IF list[1] = listener THEN 1 ELSE 0) + Count(Tail(list), listener)
\* the list of the phase when the frame's emit was called
AtStart(frame, phase) ==
  IF phase = "exact" THEN ExactAtStart(frame) ELSE WildcardAtStart(frame)
\* the list of the phase now
Current(frame, phase) ==
  getArray(all, IF phase = "exact" THEN frame.type ELSE Wildcard)

\* ------------------------------------------------------------------------
\* C27: an emit invokes, for its type and for "*", no listener more often
\* than it was registered when the emit was called, so a listener registered
\* from inside a listener of the emit is not invoked by it; and an emit
\* invokes the listeners that were registered before it was called and still
\* are when it is done.
\* ------------------------------------------------------------------------
C27_RegisteredDuringDispatchWaits ==
  \A frame \in Frames : \A phase \in {"exact", "wildcard"} :
    /\ \A l \in Members({InvokedIn(frame.invoked, phase)}) :
         Count(InvokedIn(frame.invoked, phase), l) <= Count(AtStart(frame, phase), l)
    /\ Finished(frame) =>
         \A l \in Members({AtStart(frame, phase)}) \cap Members({Current(frame, phase)}) :
           l \in Members({InvokedIn(frame.invoked, phase)})

\* the frame has called the last listener of its type
ExactDone(frame) == frame.phase = "wildcard"
\* the listener calls off(type, g) for the type of the list it is in
RemovesSameType(frame) ==
  /\ Invoked = Fn("actor")
  /\ input.op = "off"
  /\ input.type = (IF frame.phase = "exact" THEN frame.type ELSE Wildcard)

\* ------------------------------------------------------------------------
\* C28: an emit invokes the listeners that were registered for its type
\* when it was called, all of them and in registration order, also when one
\* of them removes another with off during the dispatch (likewise for the
\* listeners of "*" when only they run); off takes the listener out of the
\* map, so that no later emit finds it registered.
\* ------------------------------------------------------------------------
C28_RemovalDuringDispatchSkipsNone ==
  /\ [](\A frame \in Frames :
          /\ ExactDone(frame) => InvokedIn(frame.invoked, "exact") = ExactAtStart(frame)
          /\ (Finished(frame) /\ frame.type # Wildcard /\ ExactAtStart(frame) = <<>>)
               => InvokedIn(frame.invoked, "wildcard") = WildcardAtStart(frame))
  /\ [][(Invokes /\ RemovesSameType(Top) /\ Count(getArray(all, input.type), Fn("g")) > 0)
          => Count(getArray(all', input.type), Fn("g"))
               = Count(getArray(all, input.type), Fn("g")) - 1]_vars

\* an emit has invoked g after the listener that removed it from the map
C28_Witness ==
  \E frame \in Frames :
    /\ ExactDone(frame)
    /\ input.op = "off"
    /\ input.type = frame.type
    /\ \E j, k \in 1..Len(frame.invoked) :
         /\ j < k
         /\ frame.invoked[j].listener = Fn("actor")
         /\ frame.invoked[k].listener = Fn("g")
         /\ frame.invoked[k].phase = "exact"
    /\ Fn("g") \notin Members({getArray(all, frame.type)})

\* the handlers the frame has run that threw
ThrewIn(frame) ==
  {k \in 1..Len(frame.invoked) : frame.invoked[k].listener.handler = "thrower"}

\* ------------------------------------------------------------------------
\* C29: emit does not throw to its caller; and an emit in which a listener
\* threw has still invoked every listener that was registered for its type
\* when it was called, in order, and every listener of "*" that was
\* registered then and still is.
\* ------------------------------------------------------------------------
C29_EmitIsolatesErrors ==
  /\ thrown # "HandlerError"
  /\ \A frame \in Frames : (Finished(frame) /\ ThrewIn(frame) # {}) =>
       /\ InvokedIn(frame.invoked, "exact") = ExactAtStart(frame)
       /\ \A l \in Members({WildcardAtStart(frame)}) \cap Members({getArray(all, Wildcard)}) :
            l \in Members({InvokedIn(frame.invoked, "wildcard")})

\* an emit called from outside is done: a listener of its type threw, and
\* listeners of the type and of "*" were invoked after it
C29_Witness ==
  /\ Len(stack) = 1
  /\ Finished(Top)
  /\ thrown = "none"
  /\ \E j, k, n \in 1..Len(Top.invoked) :
       /\ j < k /\ k < n
       /\ Top.invoked[j].listener = Fn("thrower")
       /\ Top.invoked[k].phase = "exact"
       /\ Top.invoked[n].phase = "wildcard"

\* ------------------------------------------------------------------------
\* C30: whenever the bus can be called from outside, a call of on or once
\* with a handler that is not a function throws TypeError, one with the
\* string name "__proto__", "constructor" or "prototype" throws, and both
\* leave the listener map as it was; a call with a symbol name and a
\* function is accepted and adds the listener, whatever the description of
\* the symbol.
\* ------------------------------------------------------------------------
C30_OnRejectsBadHandlerAndName ==
  LET id == FreshId(all, stack) IN
  stack = <<>> =>
  \A type \in OnTypes, handler \in Functions \cup NonFunctions :
    \A call \in {on(all, type, handler), once(all, type, handler, id)} :
      /\ handler \in NonFunctions => call.thrown = "TypeError" /\ call.all = all
      /\ NotAllowed(type) => call.thrown \in {"Error", "TypeError"} /\ call.all = all
      /\ (type.kind = "symbol" /\ handler \in Functions) =>
           /\ call.thrown = "none"
           /\ listenerCount(call.all, type) = listenerCount(all, type) + 1
           /\ call.all[type][listenerCount(call.all, type)].handler = handler

\* the name "__proto__" has been rejected while a listener is registered for
\* the symbol of that description
C30_Witness ==
  /\ thrown = "Error"
  /\ SymbolType("__proto__") \in DOMAIN all
  /\ StringType("__proto__") \notin DOMAIN all

\* the list without the first occurrence of the listener
RECURSIVE WithoutFirst(_, _)
WithoutFirst(list, listener) ==
  IF list = <<>> THEN <<>>
  ELSE IF list[1] = listener THEN Tail(list)
  ELSE <<list[1]>> \o WithoutFirst(Tail(list), listener)
\* the two maps hold the same lists for every type but the given one
SameButFor(m1, m2, type) ==
  /\ DOMAIN m1 \ {type} = DOMAIN m2 \ {type}
  /\ \A t \in DOMAIN m1 \ {type} : m1[t] = m2[t]

\* ------------------------------------------------------------------------
\* C31: whenever the bus can be called from outside, off(type, h) takes the
\* registration of h out of the list of type and leaves the other listeners
\* of the type in their order and the lists of all other types as they
\* were; off(type) leaves no listener for type and the lists of all other
\* types as they were.
\* ------------------------------------------------------------------------
C31_OffRemovesOnlyTheListener ==
  stack = <<>> =>
    \A type \in ListenTypes :
      /\ \A handler \in Functions :
           /\ getArray(off(all, type, Fn(handler)), type)
                = WithoutFirst(getArray(all, type), Fn(handler))
           /\ SameButFor(off(all, type, Fn(handler)), all, type)
      /\ ~has(off(all, type, NoHandler), type)
      /\ SameButFor(off(all, type, NoHandler), all, type)

\* g is registered for "a" after another listener while "*" has a listener
\* too
C31_Witness ==
  /\ stack = <<>>
  /\ Wildcard \in DOMAIN all
  /\ StringType("a") \in DOMAIN all
  /\ Len(all[StringType("a")]) = 2
  /\ all[StringType("a")][1] # Fn("g")
  /\ all[StringType("a")][2] = Fn("g")

\* the arguments an emit owes a listener of its type and a listener of "*"
ArgsOf(frame, phase) ==
  IF phase = "exact" THEN <<frame.evt, NoArgument>> ELSE <<frame.type, frame.evt>>
\* no listener of the type is invoked after one of "*"
ExactFirst(invoked) ==
  \A j, k \in 1..Len(invoked) :
    (invoked[j].phase = "wildcard" /\ invoked[k].phase = "exact") => k < j

\* ------------------------------------------------------------------------
\* C32: every emit(type, evt) invokes the listeners of type in registration
\* order, each with (evt), and after all of them the listeners of "*" in
\* registration order, each with (type, evt) (the listeners of "*" being
\* those registered when emit was called, when the list of "*" that emit
\* walks is still that list).
\* ------------------------------------------------------------------------
C32_EmitOrderAndArguments ==
  \A frame \in Frames :
    /\ \A k \in 1..Len(frame.invoked) :
         frame.invoked[k].args = ArgsOf(frame, frame.invoked[k].phase)
    /\ ExactFirst(frame.invoked)
    /\ ExactDone(frame) => InvokedIn(frame.invoked, "exact") = ExactAtStart(frame)
    /\ (Finished(frame) /\ handlersCopy(frame, all) = WildcardAtStart(frame))
         => InvokedIn(frame.invoked, "wildcard") = WildcardAtStart(frame)

\* ------------------------------------------------------------------------
\* C33: the response-failure stage has not run for a call that has not
\* reached its outcome, so not for a failed attempt that is retried; it has
\* run exactly once for a call that ended in a transport failure, and not
\* at all for a call that ended with a response.
\* ------------------------------------------------------------------------
C33_FailureStageOnTerminalFailureOnly ==
  \A c \in Calls :
    /\ ~Done(c) => stageRuns[c] = 0
    /\ (Done(c) /\ outcome[c].kind = "error") => stageRuns[c] = 1
    /\ (Done(c) /\ outcome[c].kind \in {"success", "business"}) => stageRuns[c] = 0

\* a call has ended in a transport failure after a retry, and another has
\* ended with a response after a retry
C33_Witness ==
  \E c, d \in Calls :
    /\ Done(c) /\ outcome[c].kind = "error" /\ calls[c] >= 2 /\ stageRuns[c] = 1
    /\ Done(d) /\ outcome[d].kind = "success" /\ calls[d] >= 2 /\ stageRuns[d] = 0

\* ------------------------------------------------------------------------
\* C34: the request interceptor run of a retry of call A leaves the signal of
\* every other call as it was: a call B of the same key that is registered
\* or in flight is not aborted by the retry of A.
\* ------------------------------------------------------------------------
C34_RetryAbortsNoOtherCall ==
  [][\A c \in Calls : (Registers(c) /\ retryCount[c] > 0) =>
       \A d \in Calls \ {c} : Awaiting(d) => signal'[d] = signal[d]]_vars

\* ------------------------------------------------------------------------
\* C35: in a burst of calls of one request, the registration of a call
\* leaves no earlier call that is registered or in flight with an active
\* signal, however the failure handling of the aborted calls interleaves
\* with the registrations; and the transport answers no call after a later
\* call of the burst was registered.
\* ------------------------------------------------------------------------
C35_BurstAbortsAllButLast ==
  /\ [][\A c \in BurstCalls : Registers(c) =>
          \A d \in 1..(c - 1) : Awaiting(d) => signal'[d] # "active"]_vars
  /\ [][\A d \in BurstCalls :
          (pc[d] = "inflight" /\ pc'[d] = "done" /\ signal[d] = "active") =>
            \A c \in (d + 1)..MaxBurst : pc[c] \in {"idle", "queued"}]_vars

\* ------------------------------------------------------------------------
\* C36: when options.timeout and options.httpConfig.timeout are both given,
\* the instance is created with options.timeout; when options.baseURL and
\* options.httpConfig.baseURL are both given, it is created with
\* options.baseURL.
\* ------------------------------------------------------------------------
BothGiven(options, k) ==
  Given(options[k]) /\ Given(options.httpConfig) /\ Given(options.httpConfig[1][k])

C36_OptionsHavePriority ==
  Given(result) =>
    /\ BothGiven(input, "timeout") => result[1].timeout = input.timeout
    /\ (BothGiven(input, "baseURL") /\ input.baseURL # <<"">>) =>
          result[1].baseURL = input.baseURL

\* ------------------------------------------------------------------------
\* C37: on a bus created without an initial map, no event type of the
\* listener map has an empty listener list, so has(type) is true exactly
\* for the keys of the map.
\* ------------------------------------------------------------------------
C37_NoEmptyListInMap ==
  /\ \A type \in DOMAIN all : Len(all[type]) > 0
  /\ \A type \in OnTypes : has(all, type) <=> type \in DOMAIN all

\* an emit in progress whose type had listeners when it started and is no
\* longer a key of the map, next to a type that still is one
C37_Witness ==
  /\ \E n \in 1..Len(stack) : stack[n].copy # <<>> /\ stack[n].type \notin DOMAIN all
  /\ DOMAIN all # {}

\* the number of times the emit of the frame has invoked the listener
Times(frame, listener) ==
  Cardinality({k \in 1..Len(frame.invoked) : frame.invoked[k].listener = listener})
\* the registrations of the listener that the emit of the frame has met: in
\* the list of its type and in the list of "*"; for the type "*" the two are
\* one list, and a registration of the later copy counts only beyond those of
\* the first
Registrations(frame, listener) ==
  LET exact == Count(ExactAtStart(frame), listener)
      wild == IF frame.phase = "wildcard" THEN Count(frame.copy, listener) ELSE 0
  IN IF frame.type = Wildcard THEN (IF wild > exact THEN wild ELSE exact)
     ELSE exact + wild

\* ------------------------------------------------------------------------
\* C38: a single emit call invokes each registration of a listener at most
\* once, for every event type, the type "*" included: no listener is
\* invoked more often than it is registered in the lists the emit walks.
\* ------------------------------------------------------------------------
C38_AtMostOncePerEmit ==
  \A frame \in Frames : \A k \in 1..Len(frame.invoked) :
    Times(frame, frame.invoked[k].listener) <= Registrations(frame, frame.invoked[k].listener)

\* ------------------------------------------------------------------------
\* C39: off(type, h) after once(type, h) removes the one-shot listener:
\* listenerCount(type) is what it was before the two calls and an emit of
\* the type that follows does not meet the one-shot listener of h.
\* ------------------------------------------------------------------------
C39_OffRemovesPendingOnce ==
  (stack = <<>> /\ listenerCountAll(all) < MaxListeners) =>
    \A type \in ListenTypes, h \in Functions :
      LET wrap == Wrap(type, h, FreshId(all, stack))
          registered == once(all, type, h, FreshId(all, stack)).all
          removed == off(registered, type, Fn(h))
          handlers == NewFrame(removed, type, EventValue("p")).copy
      IN /\ listenerCount(removed, type) = listenerCount(all, type)
         /\ wrap \notin Members({handlers})

\* the emit of the frame is inside the handler of a one-shot listener
InOnce(frame) == frame.at = "exit" /\ frame.running.wrap
\* the handler on top of the stack called emit and the call stack had no
\* room for it
Exhausted ==
  /\ Len(stack) = MaxDepth
  /\ Top.at = "exit" /\ Top.threw
  /\ Top.running.handler = "actor" /\ input.op = "emit"

\* ------------------------------------------------------------------------
\* C40: while the handler of a one-shot listener has not returned, no emit
\* issued from inside it invokes that one-shot listener again; and the
\* emits nested in a one-shot handler end by themselves, not because every
\* level of the call stack is taken by the same one-shot handler.
\* ------------------------------------------------------------------------
C40_OnceNotReentered ==
  /\ \A j \in 1..Len(stack) : \A k \in (j + 1)..Len(stack) :
       (InOnce(stack[j]) /\ InOnce(stack[k])) => stack[k].running # stack[j].running
  /\ ~(Exhausted /\ \A k \in 1..Len(stack) : InOnce(stack[k]) /\ stack[k].running = Top.running)

====
